---- MODULE Spec2Model ----
(***************************************************************************)
(* Offline-resilient evaluation subsystem of the AISentinel SDK:           *)
(* Governor (offline queue, connectivity mode, retry loop, rulepack        *)
(* resolution), CacheManager and the Node storage driver.                  *)
(***************************************************************************)
EXTENDS Integers, Sequences, FiniteSets, TLC

(***************************************************************************)
(* Bounds of the model and configuration values                            *)
(***************************************************************************)
\* most events ever enqueued in one behaviour
MaxEvents == 3
\* most clock advances in one behaviour
MaxTicks == 1
\* most audit records appended in one behaviour
MaxAudit == 2
\* most CacheManager.get lookups counted in one behaviour
MaxLookups == 3
\* config.retry.retries of the modelled instance
retries == 1
\* most Governor instances created after the first in one behaviour
MaxCreates == 1
\* remote fetches started by loadRulepack calls of the application
MaxLoads == 2
\* appendAuditRecord calls of the application in one behaviour
MaxAppends == 502
\* Date.now() when the behaviour starts
StartTime == 1
\* config.retry.retries where the backoff delays are what matters
MaxBackoffRetries == 6

\* config.cacheTTL (DEFAULTS.cacheTTL)
cacheTTL == 300000
\* the audit ring buffer's size
AuditLimit == 500
\* config.retry (DEFAULT_RETRY) apart from retries
factor == 2
minTimeoutMs == 250
maxTimeoutMs == 4000
\* the clock advances by one cache lifetime at a time
TickMs == cacheTTL

storageKeyPrefix == "aisentinel"
OFFLINE_QUEUE_KEY == "offline-queue"
AUDIT_LOG_KEY == "audit-log"
RULEPACK_INDEX_KEY == "rulepack-index"
namespace == "rulepack"
enableAuditLog == TRUE
configOffline == FALSE

(***************************************************************************)
(* JavaScript numbers: finite, +Infinity, and the null that                *)
(* JSON.stringify writes for a non-finite number                           *)
(***************************************************************************)
Num(n) == [k |-> "num", n |-> n]
POSITIVE_INFINITY == [k |-> "inf", n |-> 0]
JsonNull == [k |-> "null", n |-> 0]
Undefined == [k |-> "undefined", n |-> 0]

\* a + b
Plus(a, b) == IF a.k = "inf" \/ b.k = "inf" THEN POSITIVE_INFINITY ELSE Num(a.n + b.n)
\* ttlMs ?? fallback
Coalesce(a, fallback) == IF a.k = "undefined" THEN fallback ELSE a
\* a < t and a <= t for a finite t; null converts to 0
LessThan(a, t) == IF a.k = "inf" THEN FALSE ELSE (IF a.k = "null" THEN 0 ELSE a.n) < t
LessOrEqual(a, t) == IF a.k = "inf" THEN FALSE ELSE (IF a.k = "null" THEN 0 ELSE a.n) <= t

(***************************************************************************)
(* Finite maps (Map, the cache directory)                                  *)
(***************************************************************************)
Has(m, key) == key \in DOMAIN m
MapSet(m, key, v) == [x \in DOMAIN m \cup {key} |-> IF x = key THEN v ELSE m[x]]
MapDelete(m, key) == [x \in DOMAIN m \ {key} |-> m[x]]
EmptyMap == [x \in {} |-> 0]

(***************************************************************************)
(* utils.ts: exponentialBackoff                                            *)
(***************************************************************************)
RECURSIVE pow(_, _)
\* Math.pow(base, exponent) for a whole exponent >= 0
pow(base, exponent) == IF exponent = 0 THEN 1 ELSE base * pow(base, exponent - 1)

\* Math.min(a, b)
min(a, b) == IF a <= b THEN a ELSE b

\* a backoff without the cap of maxTimeoutMs
exponentialBackoffUncapped(attemptNo, options) ==
  options.minTimeoutMs * pow(options.factor, attemptNo)

\* exponentialBackoff: the delayMs it waits for
exponentialBackoff(attemptNo, options) ==
  min(options.maxTimeoutMs, options.minTimeoutMs * pow(options.factor, attemptNo))

(***************************************************************************)
(* storage.ts: the Node storage driver                                     *)
(***************************************************************************)
getPrefixedKey(prefix, key) == prefix \o ":" \o key

serialize(value, ttlMs, t) ==
  [value |-> value, expiresAt |-> Plus(Num(t), Coalesce(ttlMs, POSITIVE_INFINITY))]

\* storage.ts isExpired, for an entry that exists
StorageIsExpired(entry, t) ==
  entry.expiresAt # POSITIVE_INFINITY /\ LessThan(entry.expiresAt, t)

\* JSON.stringify(entry) followed by JSON.parse: Infinity is written as null
JsonNumber(x) == IF x.k = "inf" THEN JsonNull ELSE x
JsonStringify(entry) == [value |-> entry.value, expiresAt |-> JsonNumber(entry.expiresAt)]
JsonParse(text) == text

\* getItem: [found, value, memoryStore, files]
getItem(ms, fs, key, t) ==
  LET namespaced == getPrefixedKey(storageKeyPrefix, key) IN
  IF Has(ms, namespaced) /\ ~StorageIsExpired(ms[namespaced], t)
  THEN [found |-> TRUE, value |-> <<ms[namespaced].value>>, memoryStore |-> ms, files |-> fs]
  ELSE IF ~Has(fs, namespaced) \/ StorageIsExpired(JsonParse(fs[namespaced]), t)
       THEN [found |-> FALSE, value |-> <<>>,
             memoryStore |-> MapDelete(ms, namespaced),
             files |-> MapDelete(fs, namespaced)]
       ELSE [found |-> TRUE, value |-> <<JsonParse(fs[namespaced]).value>>,
             memoryStore |-> MapSet(ms, namespaced, JsonParse(fs[namespaced])),
             files |-> fs]

\* setItem: [memoryStore, files]
setItem(ms, fs, key, value, ttlMs, t) ==
  LET namespaced == getPrefixedKey(storageKeyPrefix, key)
      entry == serialize(value, ttlMs, t) IN
  [memoryStore |-> MapSet(ms, namespaced, entry),
   files |-> MapSet(fs, namespaced, JsonStringify(entry))]

\* removeItem: [memoryStore, files]
removeItem(ms, fs, key) ==
  LET namespaced == getPrefixedKey(storageKeyPrefix, key) IN
  [memoryStore |-> MapDelete(ms, namespaced), files |-> MapDelete(fs, namespaced)]

\* String.prototype.startsWith
startsWith(s, searchString) ==
  Len(s) >= Len(searchString) /\ SubSeq(s, 1, Len(searchString)) = searchString

\* String.prototype.replace(pattern, '') for a string pattern: the first occurrence
\* of the pattern, wherever it is, is removed
replaceFirst(s, pattern) ==
  LET at == {i \in 1..(Len(s) - Len(pattern) + 1) :
               SubSeq(s, i, i + Len(pattern) - 1) = pattern} IN
  IF at = {} THEN s
  ELSE LET i == CHOOSE j \in at : \A k \in at : j <= k IN
       SubSeq(s, 1, i - 1) \o SubSeq(s, i + Len(pattern), Len(s))

\* String.prototype.replace(/\.json$/, '')
stripJson(s) ==
  IF Len(s) >= 5 /\ SubSeq(s, Len(s) - 4, Len(s)) = ".json"
  THEN SubSeq(s, 1, Len(s) - 5)
  ELSE s

\* the name of the file that holds the entry of a prefixed key
fileName(namespaced) == namespaced \o ".json"

\* keys(namespace) for a namespace that is given: the keys of the files whose name
\* starts with getPrefixedKey(prefix, namespace), without the prefix and .json
storageKeys(fs, ns) ==
  LET prefixFilter == getPrefixedKey(storageKeyPrefix, ns) IN
  {stripJson(replaceFirst(fileName(namespaced), storageKeyPrefix \o ":")) :
     namespaced \in {n \in DOMAIN fs : startsWith(fileName(n), prefixFilter)}}

\* removeItem for each key of a set, as Promise.all(keys.map(removeItem)) leaves it
removeItems(ms, fs, keySet) ==
  LET gone == {getPrefixedKey(storageKeyPrefix, key) : key \in keySet} IN
  [memoryStore |-> [x \in DOMAIN ms \ gone |-> ms[x]],
   files |-> [x \in DOMAIN fs \ gone |-> fs[x]]]

(***************************************************************************)
(* cache.ts: CacheManager<Rulepack> and the content-addressed key          *)
(***************************************************************************)
\* hashString: the hex digest of the string; the digest is taken as injective and
\* written as the hashed string in a wrapper
hashString(value) == "sha256(" \o value \o ")"

\* a key that leaves the checksum out
createRulepackCacheKeyOfPolicy(policyId, checksum) == hashString(policyId)

\* hashString(`${policyId}:${checksum}`)
createRulepackCacheKey(policyId, checksum) == hashString(policyId \o ":" \o checksum)

CacheIsExpired(entry, t) ==
  entry.expiresAt # POSITIVE_INFINITY /\ LessOrEqual(entry.expiresAt, t)

\* a promotion whose entry is expired as soon as it is stored
PromotedExpiresAtNow(t) == Num(t)

\* expiresAt of the entry get() promotes: now() + this.ttlMs
PromotedExpiresAt(t) == Plus(Num(t), Num(cacheTTL))

\* CacheManager.get: [found, value, memory, metrics, memoryStore, files]
CacheGet(mem, met, ms, fs, key, t) ==
  IF Has(mem, key) /\ ~CacheIsExpired(mem[key], t)
  THEN [found |-> TRUE, value |-> <<mem[key].value>>, memory |-> mem,
        metrics |-> [met EXCEPT !.hits = @ + 1], memoryStore |-> ms, files |-> fs]
  ELSE LET stale == Has(mem, key)
           mem1 == IF stale THEN MapDelete(mem, key) ELSE mem
           met1 == IF stale THEN [met EXCEPT !.stale = @ + 1] ELSE met
           persisted == getItem(ms, fs, getPrefixedKey(namespace, key), t) IN
       IF ~persisted.found
       THEN [found |-> FALSE, value |-> <<>>, memory |-> mem1,
             metrics |-> [met1 EXCEPT !.misses = @ + 1],
             memoryStore |-> persisted.memoryStore, files |-> persisted.files]
       ELSE [found |-> TRUE, value |-> persisted.value,
             memory |-> MapSet(mem1, key,
                         [value |-> persisted.value[1],
                          expiresAt |-> PromotedExpiresAt(t)]),
             metrics |-> [met1 EXCEPT !.hits = @ + 1],
             memoryStore |-> persisted.memoryStore, files |-> persisted.files]

\* CacheManager.set: [memory, memoryStore, files]
CacheSet(mem, ms, fs, key, value, ttlMs, t) ==
  LET stored == setItem(ms, fs, getPrefixedKey(namespace, key), value,
                        Coalesce(ttlMs, Num(cacheTTL)), t) IN
  [memory |-> MapSet(mem, key,
                [value |-> value,
                 expiresAt |-> Plus(Num(t), Coalesce(ttlMs, Num(cacheTTL)))]),
   memoryStore |-> stored.memoryStore, files |-> stored.files]

\* a has() that looks the key up without counting the lookup
CacheHasUncounted(mem, met, ms, fs, key, t) ==
  [CacheGet(mem, met, ms, fs, key, t) EXCEPT !.metrics = met]

\* CacheManager.has: get(key), then value !== undefined
CacheHas(mem, met, ms, fs, key, t) == CacheGet(mem, met, ms, fs, key, t)

\* CacheManager.delete: [memory, memoryStore, files]
CacheDelete(mem, ms, fs, key) ==
  LET removed == removeItem(ms, fs, getPrefixedKey(namespace, key)) IN
  [memory |-> MapDelete(mem, key),
   memoryStore |-> removed.memoryStore, files |-> removed.files]

\* CacheManager.clear: [memory, memoryStore, files]
CacheClear(mem, ms, fs) ==
  LET removed == removeItems(ms, fs, storageKeys(fs, namespace)) IN
  [memory |-> EmptyMap, memoryStore |-> removed.memoryStore, files |-> removed.files]

(***************************************************************************)
(* Governor.ts: state of one process running one Governor instance         *)
(***************************************************************************)
VARIABLES
  now,            \* Date.now()
  isOffline,      \* Governor.isOffline (Connectivity Mode)
  offlineQueue,   \* Governor.offlineQueue
  auditLog,       \* Governor.auditLog
  rulepackIndex,  \* Governor.rulepackIndex: policyId -> cache key
  memory,         \* CacheManager.memory of rulepackCache
  metrics,        \* CacheManager.metrics of rulepackCache
  memoryStore,    \* storage.ts memoryStore (module level, lives with the process)
  files,          \* ~/.aisentinel/cache: file name -> JSON text
  pc,             \* where the running call is suspended
  attempt,        \* requestWithRetry's attempt counter
  cur,            \* argument of the evaluate / updatePolicies invocation in progress
  inflight,       \* flushOfflineQueue's local `event` (empty or one event)
  flushStart,     \* history: the queue when the running flushOfflineQueue started
  remote,         \* history: the last top-level call issued a remote request
  result,         \* history: what the last finished top-level call returned or threw
  startedOffline, \* history: isOffline when the last top-level call started
  failedOnce,     \* history: ids of the events whose replay failed at least once
  creates,        \* history: number of Governor instances created after the first
  loads,          \* history: number of remote fetches started by loadRulepack calls
  appended,       \* history: number of appendAuditRecord calls of the application
  delivered,      \* history: ids of the events the remote service accepted, in order
  nextId,         \* history: number of events enqueued so far
  realtimeInterval, \* Governor.realtimeInterval: TRUE while the interval timer is set
  backoff         \* the exponentialBackoff the retry loop is waiting in, if any

vars == <<now, isOffline, offlineQueue, auditLog, rulepackIndex, memory, metrics,
          memoryStore, files, pc, attempt, cur, inflight, flushStart, remote,
          result, startedOffline, failedOnce, creates, delivered, nextId, loads, appended,
          realtimeInterval, backoff>>

cacheVars == <<rulepackIndex, memory, metrics>>
storageVars == <<memoryStore, files>>

OptUndefined == "undefined"
OptOfflineTrue == "offline_true"
OptOfflineFalse == "offline_false"
Options == {OptUndefined, OptOfflineTrue}
PolicyIds == {"", "p1"}
Checksums == {"c1"}
PolicyLists == {"L1"}
\* the lists updatePolicies is called with where the list itself is what matters
UpdateLists == {"L1", "L2"}
Decisions == {"allow"}
Payloads == [policyId : PolicyIds, options : Options]

\* the policy ids loadRulepack is called with, and the versions the remote service
\* serves for a policy: checksums of the form "algorithm:digest" are among them
LoadPolicyIds == {"", "p", "p:x"}
ServedChecksums(policyId) ==
  IF policyId = "p" THEN {"c", "x:c"}
  ELSE IF policyId = "p:x" THEN {"c"}
  ELSE Checksums

\* the bodies the remote service answers GET /policies/updates with
ServedUpdates == {<<>>, <<[policyId |-> "p1", checksum |-> "c1"]>>}

\* what one httpRequest can end with: a response with response.ok, a NetworkError
\* (a response that is not ok), a TimeoutError (withTimeout), or the exception of a
\* rejected fetch (no connection, DNS failure), which httpRequest rethrows as it is
Outcomes == {"ok", "network_error", "timeout_error", "fetch_rejected"}

NoCall == [kind |-> "none", policyId |-> "", options |-> OptUndefined, policies |-> ""]
EvaluateCallOf(payload) ==
  [kind |-> "evaluate", policyId |-> payload.policyId, options |-> payload.options,
   policies |-> ""]
LoadCallOf(policyId) ==
  [kind |-> "loadRulepack", policyId |-> policyId, options |-> OptUndefined,
   policies |-> ""]
FetchCallOf ==
  [kind |-> "fetchPolicyUpdates", policyId |-> "", options |-> OptUndefined,
   policies |-> ""]
UpdateCallOf(policies) ==
  [kind |-> "updatePolicies", policyId |-> "", options |-> OptUndefined,
   policies |-> policies]

NoResult == [name |-> "create", status |-> "ok", error |-> "none",
             decision |-> "none", metaOffline |-> FALSE]
Running == [name |-> "none", status |-> "running", error |-> "none",
            decision |-> "none", metaOffline |-> FALSE]
Returned(name, decision, metaOffline) ==
  [name |-> name, status |-> "ok", error |-> "none",
   decision |-> decision, metaOffline |-> metaOffline]
\* a boolean return value
Boolean(b) == IF b THEN "true" ELSE "false"
\* loadRulepack's return value: a bundle, or none for undefined
ReturnedValue(name, value) ==
  [name |-> name, status |-> "ok", error |-> "none",
   decision |-> "none", metaOffline |-> FALSE, value |-> value]
Thrown(name, error) ==
  [name |-> name, status |-> "error", error |-> error,
   decision |-> "none", metaOffline |-> FALSE]

withPrefix(key) == storageKeyPrefix \o ":" \o key

\* this.config.retry
retry == [retries |-> retries, factor |-> factor, minTimeoutMs |-> minTimeoutMs,
          maxTimeoutMs |-> maxTimeoutMs]

\* no backoff is being waited in
NoBackoff == [attempt |-> -1, options |-> retry, delayMs |-> 0]
\* exponentialBackoff(attempt, options) is being waited in
Backoff(attemptNo, options) ==
  [attempt |-> attemptNo, options |-> options,
   delayMs |-> exponentialBackoff(attemptNo, options)]

\* a retry loop that stops one attempt early
maxAttemptsOffByOne == retries

\* const maxAttempts = this.config.retry.retries + 1
maxAttempts == retries + 1

\* an evaluate without its policyId check
MissingPolicyIdUnchecked(payload) == FALSE

\* !payload.policyId
MissingPolicyId(payload) == payload.policyId = ""

\* a routing decision that reads Connectivity Mode only
OfflineRequestedIgnored(options) == FALSE

\* payload.options?.offline is truthy
OfflineRequested(options) == options = OptOfflineTrue

\* a replay that passes the stored options on as they are
ReplayOptionsKept(options) == options

\* options ? { ...options, offline: false } : undefined
ReplayOptions(options) ==
  IF options = OptUndefined THEN OptUndefined ELSE OptOfflineFalse

\* persistOfflineQueue: setItem(withPrefix(OFFLINE_QUEUE_KEY), [...offlineQueue])
persistOfflineQueue(ms, fs, q, t) ==
  setItem(ms, fs, withPrefix(OFFLINE_QUEUE_KEY), q, Undefined, t)

\* the value last written for the queue, as the directory holds it
PersistedQueue ==
  LET file == getPrefixedKey(storageKeyPrefix, withPrefix(OFFLINE_QUEUE_KEY)) IN
  IF Has(files, file) THEN <<files[file].value>> ELSE <<>>

\* a log that, once full, discards the record just pushed
AuditPushKeepsOldest(log, record) ==
  LET pushed == Append(log, record) IN
  IF Len(pushed) > AuditLimit THEN SubSeq(pushed, 1, AuditLimit) ELSE pushed

\* appendAuditRecord's push and splice
AuditPush(log, record) ==
  LET pushed == Append(log, record) IN
  IF Len(pushed) > AuditLimit
  THEN SubSeq(pushed, Len(pushed) - AuditLimit + 1, Len(pushed))
  ELSE pushed

\* the fields of a new instance, and the histories at their start
Constructed ==
  /\ now = StartTime
  /\ isOffline = configOffline
  /\ offlineQueue = <<>>
  /\ auditLog = <<>>
  /\ rulepackIndex = EmptyMap
  /\ memory = EmptyMap
  /\ metrics = [hits |-> 0, misses |-> 0, stale |-> 0]
  /\ memoryStore = EmptyMap
  /\ files = EmptyMap
  /\ pc = "idle"
  /\ attempt = 0
  /\ cur = NoCall
  /\ inflight = <<>>
  /\ flushStart = <<>>
  /\ remote = FALSE
  /\ result = NoResult
  /\ startedOffline = configOffline
  /\ failedOnce = {}
  /\ creates = 0
  /\ loads = 0
  /\ appended = 0
  /\ delivered = <<>>
  /\ nextId = 0
  /\ realtimeInterval = FALSE

Init ==
  /\ Constructed
  /\ backoff = NoBackoff

\* the retry options exponentialBackoff is applied to: DEFAULT_RETRY is among them
RetryOptionSets ==
  [retries : {MaxBackoffRetries}, factor : {0, 1, 2, 3},
   minTimeoutMs : {1, minTimeoutMs}, maxTimeoutMs : {100, maxTimeoutMs}]

\* an instance whose config.retry is one of RetryOptionSets
InitBackoff ==
  /\ Constructed
  /\ backoff \in {[attempt |-> -1, options |-> options, delayMs |-> 0] :
                    options \in RetryOptionSets}

(***************************************************************************)
(* How an invocation of evaluate / updatePolicies ends.  `replayed` is     *)
(* empty for a call made by the application and holds the popped event     *)
(* for a call made by flushOfflineQueue's loop; `q` is the queue the       *)
(* invocation leaves.                                                      *)
(***************************************************************************)
\* the invocation returns; inside flushOfflineQueue the loop goes on
Return(name, decision, metaOffline, q, replayed, sent) ==
  /\ cur' = NoCall
  /\ attempt' = 0
  /\ inflight' = <<>>
  /\ offlineQueue' = q
  /\ failedOnce' = failedOnce
  /\ IF replayed = <<>>
     THEN /\ pc' = "idle"
          /\ result' = Returned(name, decision, metaOffline)
          /\ delivered' = delivered
     ELSE /\ pc' = "drain"
          /\ result' = result
          /\ delivered' = IF sent THEN Append(delivered, replayed[1].eid) ELSE delivered

\* a catch that puts the failed event back with push() in place of unshift()
ThrowAtTail(name, error, q, replayed) ==
  /\ cur' = NoCall
  /\ attempt' = 0
  /\ inflight' = <<>>
  /\ pc' = "idle"
  /\ delivered' = delivered
  /\ failedOnce' = IF replayed = <<>> THEN failedOnce ELSE failedOnce \cup {replayed[1].eid}
  /\ IF replayed = <<>>
     THEN /\ offlineQueue' = q
          /\ result' = Thrown(name, error)
     ELSE /\ offlineQueue' = q \o <<replayed[1]>>
          /\ result' = Thrown("flushOfflineQueue", error)

\* a catch that rethrows without putting the failed event back
ThrowDropsEvent(name, error, q, replayed) ==
  /\ cur' = NoCall
  /\ attempt' = 0
  /\ inflight' = <<>>
  /\ pc' = "idle"
  /\ delivered' = delivered
  /\ failedOnce' = IF replayed = <<>> THEN failedOnce ELSE failedOnce \cup {replayed[1].eid}
  /\ offlineQueue' = q
  /\ result' = IF replayed = <<>>
               THEN Thrown(name, error)
               ELSE Thrown("flushOfflineQueue", error)

\* a catch that puts back the event with the payload the replay was given
ThrowPutsBackReplayed(name, error, q, replayed) ==
  /\ cur' = NoCall
  /\ attempt' = 0
  /\ inflight' = <<>>
  /\ pc' = "idle"
  /\ delivered' = delivered
  /\ failedOnce' = IF replayed = <<>> THEN failedOnce ELSE failedOnce \cup {replayed[1].eid}
  /\ IF replayed = <<>>
     THEN /\ offlineQueue' = q
          /\ result' = Thrown(name, error)
     ELSE /\ offlineQueue' =
               (IF replayed[1].type = "evaluation"
                THEN <<[replayed[1] EXCEPT !.payload.options = ReplayOptions(@)]>>
                ELSE replayed) \o q
          /\ result' = Thrown("flushOfflineQueue", error)

\* new Date(t).toISOString(): the whole seconds and the three-digit millisecond
\* field of "YYYY-MM-DDTHH:mm:ss.sssZ"; nothing finer than a millisecond is kept
toISOString(t) == [seconds |-> t \div 1000, sss |-> t % 1000]

\* metadata.queuedEventId of an offline-routed evaluate: event.createdAt
queuedEventId(event) == event.createdAt

\* a failure of evaluate that queues the request it could not send
ThrowQueuesRequest(name, error, q, replayed) ==
  /\ cur' = NoCall
  /\ attempt' = 0
  /\ inflight' = <<>>
  /\ pc' = "idle"
  /\ delivered' = delivered
  /\ failedOnce' = IF replayed = <<>> THEN failedOnce ELSE failedOnce \cup {replayed[1].eid}
  /\ IF replayed = <<>>
     THEN /\ offlineQueue' =
               (IF name = "evaluate" /\ error # "policy_error"
                THEN Append(q, [type |-> "evaluation",
                                payload |-> [policyId |-> cur.policyId,
                                             options |-> cur.options],
                                createdAt |-> toISOString(now), eid |-> nextId + 1])
                ELSE q)
          /\ result' = Thrown(name, error)
     ELSE /\ offlineQueue' = <<replayed[1]>> \o q
          /\ result' = Thrown("flushOfflineQueue", error)

\* the invocation throws: flushOfflineQueue's catch puts the event back and rethrows
Throw(name, error, q, replayed) ==
  /\ cur' = NoCall
  /\ attempt' = 0
  /\ inflight' = <<>>
  /\ pc' = "idle"
  /\ delivered' = delivered
  /\ failedOnce' = IF replayed = <<>> THEN failedOnce ELSE failedOnce \cup {replayed[1].eid}
  /\ IF replayed = <<>>
     THEN /\ offlineQueue' = q
          /\ result' = Thrown(name, error)
     ELSE /\ offlineQueue' = <<replayed[1]>> \o q
          /\ result' = Thrown("flushOfflineQueue", error)

\* an enqueue whose snapshot also holds the event a running flush has popped
enqueueWithPopped(event, q) ==
  LET pushed == Append(q, event) IN
  [queue |-> pushed,
   stored |-> persistOfflineQueue(memoryStore, files, inflight \o pushed, now)]

\* enqueueOfflineEvent: push, then persistOfflineQueue
enqueueOfflineEvent(event, q) ==
  LET pushed == Append(q, event) IN
  [queue |-> pushed,
   stored |-> persistOfflineQueue(memoryStore, files, pushed, now)]

\* getCachedRulepack: [found, value, memory, metrics, memoryStore, files]
getCachedRulepack(policyId) ==
  IF ~Has(rulepackIndex, policyId)
  THEN [found |-> FALSE, value |-> <<>>, memory |-> memory, metrics |-> metrics,
        memoryStore |-> memoryStore, files |-> files]
  ELSE CacheGet(memory, metrics, memoryStore, files, rulepackIndex[policyId], now)

\* evaluate, up to its first remote request
evaluate(payload, q, replayed) ==
  IF MissingPolicyId(payload)
  THEN /\ Throw("evaluate", "policy_error", q, replayed)
       /\ UNCHANGED <<isOffline, auditLog, cacheVars, storageVars, nextId>>
  ELSE IF isOffline \/ OfflineRequested(payload.options)
  THEN LET event == [type |-> "evaluation", payload |-> payload,
                     createdAt |-> toISOString(now), eid |-> nextId + 1]
           queued == enqueueOfflineEvent(event, q) IN
       /\ nextId < MaxEvents
       /\ nextId' = nextId + 1
       /\ memoryStore' = queued.stored.memoryStore
       /\ files' = queued.stored.files
       /\ Return("evaluate", "review", TRUE, queued.queue, replayed, FALSE)
       /\ UNCHANGED <<isOffline, auditLog, cacheVars>>
  ELSE \* ensureRulepackCached, then loadRulepack(policyId, true) or the POST
       LET cached == getCachedRulepack(payload.policyId) IN
       /\ metrics.hits + metrics.misses < MaxLookups
       /\ Len(auditLog) < MaxAudit
       /\ memory' = cached.memory
       /\ metrics' = cached.metrics
       /\ memoryStore' = cached.memoryStore
       /\ files' = cached.files
       /\ pc' = IF cached.found THEN "post" ELSE "rulepack"
       /\ attempt' = 0
       /\ cur' = EvaluateCallOf(payload)
       /\ inflight' = replayed
       /\ offlineQueue' = q
       /\ result' = Running
       /\ UNCHANGED <<isOffline, auditLog, rulepackIndex, delivered, failedOnce, nextId>>

\* updatePolicies, up to its remote request
updatePolicies(policies, q, replayed) ==
  IF isOffline
  THEN LET event == [type |-> "policy-update", payload |-> [policies |-> policies],
                     createdAt |-> toISOString(now), eid |-> nextId + 1]
           queued == enqueueOfflineEvent(event, q) IN
       /\ nextId < MaxEvents
       /\ nextId' = nextId + 1
       /\ memoryStore' = queued.stored.memoryStore
       /\ files' = queued.stored.files
       /\ Return("updatePolicies", "none", FALSE, queued.queue, replayed, FALSE)
       /\ UNCHANGED <<isOffline, auditLog, cacheVars>>
  ELSE /\ pc' = "put"
       /\ attempt' = 0
       /\ cur' = UpdateCallOf(policies)
       /\ inflight' = replayed
       /\ offlineQueue' = q
       /\ result' = Running
       /\ UNCHANGED <<isOffline, auditLog, cacheVars, storageVars, delivered, failedOnce,
                      nextId>>

\* cacheRulepack's ttlMs: (rulepack.ttlSeconds ?? max(1, floor(cacheTTL / 1000))) * 1000
RulepackTtlMs(rulepack) ==
  LET seconds == cacheTTL \div 1000 IN
  (IF seconds < 1 THEN 1 ELSE seconds) * 1000

\* loadRulepack after its request succeeded: decode the body, then cacheRulepack
RulepackFetched(checksum, decodable) ==
  IF ~decodable
  THEN /\ Throw(cur.kind, "decode_error", offlineQueue, inflight)
       /\ UNCHANGED <<auditLog, cacheVars, storageVars>>
  ELSE LET rulepack == [id |-> cur.policyId, checksum |-> checksum]
           cacheKey == createRulepackCacheKey(cur.policyId, rulepack.checksum)
           cached == CacheSet(memory, memoryStore, files, cacheKey, rulepack,
                              Num(RulepackTtlMs(rulepack)), now)
           index == MapSet(rulepackIndex, cur.policyId, cacheKey)
           stored == setItem(cached.memoryStore, cached.files,
                             withPrefix(RULEPACK_INDEX_KEY), index, Undefined, now) IN
       /\ memory' = cached.memory
       /\ rulepackIndex' = index
       /\ memoryStore' = stored.memoryStore
       /\ files' = stored.files
       /\ attempt' = 0
       /\ IF cur.kind = "loadRulepack"
          THEN \* loadRulepack was called by the application: return rulepack
               /\ pc' = "idle"
               /\ cur' = NoCall
               /\ result' = ReturnedValue("loadRulepack", <<rulepack>>)
          ELSE \* ensureRulepackCached is over: evaluate goes on to its POST
               /\ pc' = "post"
               /\ UNCHANGED <<cur, result>>
       /\ UNCHANGED <<auditLog, metrics, inflight, offlineQueue, delivered, failedOnce>>

\* evaluate after its POST succeeded: merge the metadata, appendAuditRecord, return
EvaluateResponded(decision) ==
  LET record == [action |-> "evaluate",
                 policyId |-> cur.policyId, decision |-> decision, offline |-> FALSE]
      log == IF enableAuditLog THEN AuditPush(auditLog, record) ELSE auditLog
      stored == IF enableAuditLog
                THEN setItem(memoryStore, files, withPrefix(AUDIT_LOG_KEY), log,
                             Undefined, now)
                ELSE [memoryStore |-> memoryStore, files |-> files] IN
  /\ auditLog' = log
  /\ memoryStore' = stored.memoryStore
  /\ files' = stored.files
  /\ Return("evaluate", decision, FALSE, offlineQueue, inflight, TRUE)
  /\ UNCHANGED cacheVars

\* cacheRulepack(policyId, rulepack) run to its end from the state `st`:
\* [memory, rulepackIndex, memoryStore, files]
cacheRulepackIn(st, policyId, rulepack) ==
  LET cacheKey == createRulepackCacheKey(policyId, rulepack.checksum)
      cached == CacheSet(st.memory, st.memoryStore, st.files, cacheKey, rulepack,
                         Num(RulepackTtlMs(rulepack)), now)
      index == MapSet(st.rulepackIndex, policyId, cacheKey)
      stored == setItem(cached.memoryStore, cached.files,
                        withPrefix(RULEPACK_INDEX_KEY), index, Undefined, now) IN
  [memory |-> cached.memory, rulepackIndex |-> index,
   memoryStore |-> stored.memoryStore, files |-> stored.files]

\* cacheRulepack(policyId, rulepack): [memory, rulepackIndex, memoryStore, files]
cacheRulepack(policyId, rulepack) ==
  cacheRulepackIn([memory |-> memory, rulepackIndex |-> rulepackIndex,
                   memoryStore |-> memoryStore, files |-> files], policyId, rulepack)

\* the file of the Rulepack Index
RulepackIndexFile == getPrefixedKey(storageKeyPrefix, withPrefix(RULEPACK_INDEX_KEY))

\* the orders in which the cacheRulepack calls of one Promise.all reach their
\* rulepackIndex.set: each call gets there when the write of its own bundle ends
CompletionOrders(n) ==
  {o \in [1..n -> 1..n] : \A i, j \in 1..n : o[i] = o[j] => i = j}

RECURSIVE cacheRulepacks(_, _)
\* the states after each of the cacheRulepack calls for `updates`, taken in turn
cacheRulepacks(st, updates) ==
  IF updates = <<>>
  THEN <<>>
  ELSE LET next == cacheRulepackIn(st, Head(updates).policyId,
                                   [id |-> Head(updates).policyId,
                                    checksum |-> Head(updates).checksum]) IN
       <<next>> \o cacheRulepacks(next, Tail(updates))

\* fetchPolicyUpdates returns response.data
PolicyUpdatesReturned(updates) ==
  /\ attempt' = 0
  /\ pc' = "idle"
  /\ cur' = NoCall
  /\ result' = ReturnedValue("fetchPolicyUpdates", updates)
  /\ UNCHANGED <<auditLog, metrics, inflight, offlineQueue, delivered, failedOnce>>

\* fetchPolicyUpdates after its GET succeeded: Promise.all of a cacheRulepack for
\* each update, return.  The bundles go to files of their own.  Each call writes
\* the index as it is when the call gets to it: memoryStore receives the
\* snapshots in that order, the last one holding every update, while the
\* fs.writeFile calls on the one index file run together, none awaited by the
\* next; the file ends as the snapshot whose write lands last (landed = k) or,
\* the writes overlapping, as bytes JSON.parse rejects, which readFileEntry
\* turns into undefined as it does a missing file (landed = 0).
PolicyUpdatesFetched(updates) ==
  \E order \in CompletionOrders(Len(updates)) :
    LET start == [memory |-> memory, rulepackIndex |-> rulepackIndex,
                  memoryStore |-> memoryStore, files |-> files]
        states == cacheRulepacks(start, [i \in 1..Len(updates) |-> updates[order[i]]])
        cached == IF updates = <<>> THEN start ELSE states[Len(states)] IN
    /\ memory' = cached.memory
    /\ rulepackIndex' = cached.rulepackIndex
    /\ memoryStore' = cached.memoryStore
    /\ \E landed \in (IF Len(updates) > 1 THEN 0..Len(updates) ELSE {Len(updates)}) :
         files' = IF updates = <<>> THEN cached.files
                  ELSE IF landed = 0 THEN MapDelete(cached.files, RulepackIndexFile)
                  ELSE MapSet(cached.files, RulepackIndexFile,
                              states[landed].files[RulepackIndexFile])
    /\ PolicyUpdatesReturned(updates)

\* updatePolicies after its PUT succeeded
PoliciesUpdated ==
  /\ Return("updatePolicies", "none", FALSE, offlineQueue, inflight, TRUE)
  /\ UNCHANGED <<auditLog, cacheVars, storageVars>>

\* a catch that takes a timeout for a NetworkError as well
isNetworkErrorOrTimeout(outcome) == outcome \in {"network_error", "timeout_error"}

\* error instanceof NetworkError
isNetworkError(outcome) == outcome = "network_error"

\* one pass of requestWithRetry's loop whose httpRequest ends with `outcome`, the
\* service answering GET /policies/updates with one of the bodies `served`
requestWithRetryServing(outcome, served) ==
  IF outcome = "ok"
  THEN /\ isOffline' = FALSE
       /\ backoff' = NoBackoff
       /\ CASE pc = "rulepack" ->
                 \E checksum \in ServedChecksums(cur.policyId), decodable \in BOOLEAN :
                   RulepackFetched(checksum, decodable)
            [] pc = "post" -> \E decision \in Decisions : EvaluateResponded(decision)
            [] pc = "put" -> PoliciesUpdated
            [] pc = "updates" -> \E updates \in served : PolicyUpdatesFetched(updates)
  ELSE /\ isOffline' = IF isNetworkError(outcome) THEN TRUE ELSE isOffline
       /\ IF attempt + 1 >= maxAttempts
          THEN /\ Throw(cur.kind, outcome, offlineQueue, inflight)
               /\ backoff' = NoBackoff
               /\ UNCHANGED <<auditLog, cacheVars, storageVars>>
          ELSE /\ attempt' = attempt + 1
               /\ backoff' = Backoff(attempt' - 1, retry)
               /\ UNCHANGED <<pc, cur, inflight, offlineQueue, result, delivered,
                              failedOnce, auditLog, cacheVars, storageVars>>

\* one pass of requestWithRetry's loop whose httpRequest ends with `outcome`
requestWithRetry(outcome) == requestWithRetryServing(outcome, ServedUpdates)

(***************************************************************************)
(* Actions                                                                 *)
(***************************************************************************)
\* the application calls evaluate(payload)
EvaluateCallWith(payload) ==
  /\ pc = "idle"
  /\ evaluate(payload, offlineQueue, <<>>)
  /\ remote' = FALSE
  /\ startedOffline' = isOffline
  /\ flushStart' = <<>>
  /\ UNCHANGED <<now, realtimeInterval, backoff, creates, loads, appended>>

EvaluateCall == \E payload \in Payloads : EvaluateCallWith(payload)

\* the application calls updatePolicies(policies)
UpdatePoliciesCallWith(policies) ==
  /\ pc = "idle"
  /\ updatePolicies(policies, offlineQueue, <<>>)
  /\ remote' = FALSE
  /\ startedOffline' = isOffline
  /\ flushStart' = <<>>
  /\ UNCHANGED <<now, realtimeInterval, backoff, creates, loads, appended>>

UpdatePoliciesCall == \E policies \in PolicyLists : UpdatePoliciesCallWith(policies)

UpdateListCall == \E policies \in UpdateLists : UpdatePoliciesCallWith(policies)

\* the remote request of the running invocation is answered, or fails
Attempt ==
  /\ pc \in {"rulepack", "post", "put", "updates"}
  /\ \E outcome \in Outcomes : requestWithRetry(outcome)
  /\ remote' = TRUE
  /\ UNCHANGED <<now, realtimeInterval, creates, loads, appended, flushStart,
                 startedOffline, nextId>>

\* a flushOfflineQueue without its isOffline check
FlushCallIgnoringMode ==
  /\ pc = "idle"
  /\ remote' = FALSE
  /\ startedOffline' = isOffline
  /\ result' = Running
  /\ flushStart' = offlineQueue
  /\ pc' = "drain"
  /\ UNCHANGED <<now, realtimeInterval, backoff, creates, loads, appended, isOffline, offlineQueue, auditLog, cacheVars,
                 storageVars, attempt, cur, inflight, delivered, failedOnce, nextId>>

\* a loadRulepack that never reads the cache
SkipCacheAlways(forceRefresh) == TRUE

\* loadRulepack consults the cache only if (!forceRefresh)
SkipCache(forceRefresh) == forceRefresh

\* a loadRulepack without its isOffline check
LoadBlockedOfflineNever == FALSE

\* loadRulepack: if (this.isOffline) return undefined
LoadBlockedOffline == isOffline

\* loadRulepack, up to its remote request
loadRulepack(policyId, forceRefresh) ==
  IF policyId = ""
  THEN /\ Throw("loadRulepack", "policy_error", offlineQueue, <<>>)
       /\ UNCHANGED <<isOffline, auditLog, cacheVars, storageVars, nextId>>
  ELSE LET cached == IF SkipCache(forceRefresh)
                     THEN [found |-> FALSE, value |-> <<>>, memory |-> memory,
                           metrics |-> metrics, memoryStore |-> memoryStore,
                           files |-> files]
                     ELSE getCachedRulepack(policyId) IN
       /\ metrics.hits + metrics.misses < MaxLookups
       /\ memory' = cached.memory
       /\ metrics' = cached.metrics
       /\ memoryStore' = cached.memoryStore
       /\ files' = cached.files
       /\ attempt' = 0
       /\ inflight' = <<>>
       /\ IF cached.found
          THEN /\ pc' = "idle"
               /\ cur' = NoCall
               /\ result' = ReturnedValue("loadRulepack", cached.value)
          ELSE IF LoadBlockedOffline
          THEN /\ pc' = "idle"
               /\ cur' = NoCall
               /\ result' = ReturnedValue("loadRulepack", <<>>)
          ELSE /\ loads < MaxLoads
               /\ pc' = "rulepack"
               /\ cur' = LoadCallOf(policyId)
               /\ result' = Running
       /\ UNCHANGED <<isOffline, offlineQueue, auditLog, rulepackIndex, delivered,
                      failedOnce, nextId>>

\* the application calls loadRulepack(policyId, forceRefresh)
LoadRulepackWith(policyId, forceRefresh) ==
  /\ pc = "idle"
  /\ loadRulepack(policyId, forceRefresh)
  /\ loads' = IF pc' = "rulepack" THEN loads + 1 ELSE loads
  /\ remote' = FALSE
  /\ startedOffline' = isOffline
  /\ flushStart' = <<>>
  /\ UNCHANGED <<now, realtimeInterval, backoff, creates, appended>>

LoadRulepackCall ==
  \E policyId \in LoadPolicyIds, forceRefresh \in BOOLEAN :
    LoadRulepackWith(policyId, forceRefresh)

\* the application calls appendAuditRecord(record); its records are numbered in
\* the order of the calls
AppendAuditRecordCall ==
  LET record == [action |-> "custom", id |-> appended + 1]
      log == IF enableAuditLog THEN AuditPush(auditLog, record) ELSE auditLog
      stored == IF enableAuditLog
                THEN setItem(memoryStore, files, withPrefix(AUDIT_LOG_KEY), log,
                             Undefined, now)
                ELSE [memoryStore |-> memoryStore, files |-> files] IN
  /\ pc = "idle"
  /\ appended < MaxAppends
  /\ appended' = appended + 1
  /\ auditLog' = log
  /\ memoryStore' = stored.memoryStore
  /\ files' = stored.files
  /\ result' = Returned("appendAuditRecord", "none", FALSE)
  /\ remote' = FALSE
  /\ startedOffline' = isOffline
  /\ flushStart' = <<>>
  /\ UNCHANGED <<now, realtimeInterval, backoff, creates, loads, isOffline, offlineQueue, cacheVars, pc, attempt,
                 cur, inflight, delivered, failedOnce, nextId>>

\* the application calls flushOfflineQueue()
FlushCall ==
  /\ pc = "idle"
  /\ remote' = FALSE
  /\ startedOffline' = isOffline
  /\ IF isOffline
     THEN /\ result' = Returned("flushOfflineQueue", "none", FALSE)
          /\ flushStart' = <<>>
          /\ pc' = "idle"
     ELSE /\ result' = Running
          /\ flushStart' = offlineQueue
          /\ pc' = "drain"
  /\ UNCHANGED <<now, realtimeInterval, backoff, creates, loads, appended, isOffline, offlineQueue, auditLog, cacheVars,
                 storageVars, attempt, cur, inflight, delivered, failedOnce, nextId>>

\* the payload flushOfflineQueue passes to evaluate for a popped event
ReplayPayload(event) ==
  [policyId |-> event.payload.policyId, options |-> ReplayOptions(event.payload.options)]

\* a replay that submits a list of its own in place of the stored one
ReplayPoliciesDefault(event) == "L1"

\* the list flushOfflineQueue passes to updatePolicies: event.payload
ReplayPolicies(event) == event.payload.policies

\* a queue drained from its tail: pop() in place of shift()
ShiftFromTail(q) == [event |-> q[Len(q)], rest |-> SubSeq(q, 1, Len(q) - 1)]

\* this.offlineQueue.shift(): [event, rest]
shift(q) == [event |-> Head(q), rest |-> Tail(q)]

\* a flushOfflineQueue that returns without its final persistOfflineQueue
FlushReturnWithoutPersist ==
  /\ pc' = "idle"
  /\ result' = Returned("flushOfflineQueue", "none", FALSE)
  /\ UNCHANGED <<isOffline, offlineQueue, auditLog, cacheVars, storageVars, attempt,
                 cur, inflight, delivered, failedOnce, nextId>>

\* the loop is over: persistOfflineQueue, return
FlushReturn ==
  LET stored == persistOfflineQueue(memoryStore, files, offlineQueue, now) IN
  /\ memoryStore' = stored.memoryStore
  /\ files' = stored.files
  /\ pc' = "idle"
  /\ result' = Returned("flushOfflineQueue", "none", FALSE)
  /\ UNCHANGED <<isOffline, offlineQueue, auditLog, cacheVars, attempt, cur,
                 inflight, delivered, failedOnce, nextId>>

\* one turn of flushOfflineQueue's while loop, or its end
FlushNext ==
  /\ pc = "drain"
  /\ IF offlineQueue = <<>>
     THEN FlushReturn
     ELSE LET popped == shift(offlineQueue) IN
          IF popped.event.type = "evaluation"
          THEN evaluate(ReplayPayload(popped.event), popped.rest, <<popped.event>>)
          ELSE updatePolicies(ReplayPolicies(popped.event), popped.rest,
                              <<popped.event>>)
  /\ UNCHANGED <<now, realtimeInterval, backoff, creates, loads, appended, remote, flushStart, startedOffline>>

\* the application calls setOfflineMode(enabled)
SetOfflineMode ==
  /\ pc = "idle"
  /\ \E enabled \in BOOLEAN : isOffline' = enabled
  /\ result' = Returned("setOfflineMode", "none", FALSE)
  /\ remote' = FALSE
  /\ startedOffline' = isOffline
  /\ flushStart' = <<>>
  /\ UNCHANGED <<now, realtimeInterval, backoff, creates, loads, appended, offlineQueue, auditLog, cacheVars, storageVars, pc,
                 attempt, cur, inflight, delivered, failedOnce, nextId>>

\* a fetchPolicyUpdates without its isOffline check
fetchPolicyUpdatesIgnoringMode ==
  /\ pc' = "updates"
  /\ cur' = FetchCallOf
  /\ result' = Running
  /\ attempt' = 0
  /\ inflight' = <<>>
  /\ UNCHANGED <<isOffline, offlineQueue, auditLog, cacheVars, storageVars, delivered,
                 failedOnce, nextId>>

\* fetchPolicyUpdates, up to its remote request
fetchPolicyUpdates ==
  /\ IF isOffline
     THEN /\ pc' = "idle"
          /\ cur' = NoCall
          /\ result' = ReturnedValue("fetchPolicyUpdates", <<>>)
     ELSE /\ pc' = "updates"
          /\ cur' = FetchCallOf
          /\ result' = Running
  /\ attempt' = 0
  /\ inflight' = <<>>
  /\ UNCHANGED <<isOffline, offlineQueue, auditLog, cacheVars, storageVars, delivered,
                 failedOnce, nextId>>

\* the interval timer fires: void this.fetchPolicyUpdates().catch(...); the catch
\* calls setOfflineMode(true) for a NetworkError, which requestWithRetry has done
\* already when it rethrows one
RealtimeTick ==
  /\ realtimeInterval
  /\ pc = "idle"
  /\ fetchPolicyUpdates
  /\ remote' = FALSE
  /\ startedOffline' = isOffline
  /\ flushStart' = <<>>
  /\ UNCHANGED <<now, realtimeInterval, backoff, creates, loads, appended>>

\* the application calls startRealtimeUpdates(): stopRealtimeUpdates, setInterval
StartRealtimeUpdates ==
  /\ pc = "idle"
  /\ realtimeInterval' = TRUE
  /\ result' = Returned("startRealtimeUpdates", "none", FALSE)
  /\ remote' = FALSE
  /\ startedOffline' = isOffline
  /\ flushStart' = <<>>
  /\ UNCHANGED <<now, backoff, creates, loads, appended, isOffline, offlineQueue, auditLog,
                 cacheVars, storageVars, pc, attempt, cur, inflight, delivered,
                 failedOnce, nextId>>

\* the application calls stopRealtimeUpdates(): clearInterval
StopRealtimeUpdates ==
  /\ pc = "idle"
  /\ realtimeInterval' = FALSE
  /\ result' = Returned("stopRealtimeUpdates", "none", FALSE)
  /\ remote' = FALSE
  /\ startedOffline' = isOffline
  /\ flushStart' = <<>>
  /\ UNCHANGED <<now, backoff, creates, loads, appended, isOffline, offlineQueue, auditLog,
                 cacheVars, storageVars, pc, attempt, cur, inflight, delivered,
                 failedOnce, nextId>>

\* a close that stops the timer and leaves the queue's file as it is
CloseWithoutPersist ==
  /\ pc = "idle"
  /\ realtimeInterval' = FALSE
  /\ result' = Returned("close", "none", FALSE)
  /\ remote' = FALSE
  /\ startedOffline' = isOffline
  /\ flushStart' = <<>>
  /\ UNCHANGED <<now, backoff, creates, loads, appended, isOffline, offlineQueue, auditLog,
                 cacheVars, storageVars, pc, attempt, cur, inflight, delivered,
                 failedOnce, nextId>>

\* the application calls close(): stopRealtimeUpdates, persistOfflineQueue
Close ==
  LET stored == persistOfflineQueue(memoryStore, files, offlineQueue, now) IN
  /\ pc = "idle"
  /\ realtimeInterval' = FALSE
  /\ memoryStore' = stored.memoryStore
  /\ files' = stored.files
  /\ result' = Returned("close", "none", FALSE)
  /\ remote' = FALSE
  /\ startedOffline' = isOffline
  /\ flushStart' = <<>>
  /\ UNCHANGED <<now, backoff, creates, loads, appended, isOffline, offlineQueue, auditLog,
                 cacheVars, pc, attempt, cur, inflight, delivered, failedOnce, nextId>>

\* the keys, values and lifetimes the rulepack cache is called with directly, and
\* the namespaces of the other caches over the same storage driver
CacheKeys == {"k1", "k2"}
CacheValues == {"v1"}
CacheTtls == {Undefined}
OtherNamespaces == {"rulepack2", "policy"}

\* what a call of the cache leaves in the fields every such call leaves alone
CacheCallDone(name, value) ==
  /\ pc = "idle"
  /\ result' = ReturnedValue(name, value)
  /\ remote' = FALSE
  /\ startedOffline' = isOffline
  /\ flushStart' = <<>>
  /\ UNCHANGED <<now, realtimeInterval, backoff, creates, loads, appended, isOffline,
                 offlineQueue, auditLog, rulepackIndex, pc, attempt, cur, inflight,
                 delivered, failedOnce, nextId>>

\* rulepackCache.get(key)
CacheGetCallWith(key) ==
  LET got == CacheGet(memory, metrics, memoryStore, files, key, now) IN
  /\ metrics.hits + metrics.misses < MaxLookups
  /\ memory' = got.memory
  /\ metrics' = got.metrics
  /\ memoryStore' = got.memoryStore
  /\ files' = got.files
  /\ CacheCallDone("get", got.value)

CacheGetCall == \E key \in CacheKeys : CacheGetCallWith(key)

\* rulepackCache.has(key)
CacheHasCallWith(key) ==
  LET got == CacheHas(memory, metrics, memoryStore, files, key, now) IN
  /\ metrics.hits + metrics.misses < MaxLookups
  /\ memory' = got.memory
  /\ metrics' = got.metrics
  /\ memoryStore' = got.memoryStore
  /\ files' = got.files
  /\ CacheCallDone("has", <<Boolean(got.found)>>)

CacheHasCall == \E key \in CacheKeys : CacheHasCallWith(key)

\* rulepackCache.set(key, value, ttlMs)
CacheSetCall ==
  \E key \in CacheKeys, value \in CacheValues, ttlMs \in CacheTtls :
    LET put == CacheSet(memory, memoryStore, files, key, value, ttlMs, now) IN
    /\ memory' = put.memory
    /\ memoryStore' = put.memoryStore
    /\ files' = put.files
    /\ metrics' = metrics
    /\ CacheCallDone("set", <<>>)

\* rulepackCache.delete(key)
CacheDeleteCall ==
  \E key \in CacheKeys :
    LET deleted == CacheDelete(memory, memoryStore, files, key) IN
    /\ memory' = deleted.memory
    /\ memoryStore' = deleted.memoryStore
    /\ files' = deleted.files
    /\ metrics' = metrics
    /\ CacheCallDone("delete", <<>>)

\* rulepackCache.clear()
CacheClearCall ==
  LET cleared == CacheClear(memory, memoryStore, files) IN
  /\ memory' = cleared.memory
  /\ memoryStore' = cleared.memoryStore
  /\ files' = cleared.files
  /\ metrics' = metrics
  /\ CacheCallDone("clear", <<>>)

\* set(key, value) of a CacheManager with another namespace over the same storage
\* driver: what it writes to the storage (its own memory is another object)
OtherCacheSetCall ==
  \E ns \in OtherNamespaces, value \in CacheValues :
    LET stored == setItem(memoryStore, files, getPrefixedKey(ns, "k1"), value,
                          Num(cacheTTL), now) IN
    /\ memoryStore' = stored.memoryStore
    /\ files' = stored.files
    /\ UNCHANGED <<memory, metrics>>
    /\ CacheCallDone("set", <<>>)

\* the application calls evaluate with options.offline = true
OfflineEvaluateCall == EvaluateCallWith([policyId |-> "p1", options |-> OptOfflineTrue])

\* another caller's evaluate(payload), routed offline, runs while the replay of a
\* popped event awaits its request: push and the snapshot persistOfflineQueue takes
\* of the array happen before the call's first suspension
ConcurrentEvaluateCall ==
  \E payload \in Payloads :
    LET event == [type |-> "evaluation", payload |-> payload,
                  createdAt |-> toISOString(now), eid |-> nextId + 1]
        queued == enqueueOfflineEvent(event, offlineQueue) IN
    /\ pc \in {"rulepack", "post", "put"}
    /\ inflight # <<>>
    /\ ~MissingPolicyId(payload)
    /\ isOffline \/ OfflineRequested(payload.options)
    /\ nextId < MaxEvents
    /\ nextId' = nextId + 1
    /\ offlineQueue' = queued.queue
    /\ memoryStore' = queued.stored.memoryStore
    /\ files' = queued.stored.files
    /\ UNCHANGED <<now, realtimeInterval, backoff, creates, loads, appended, isOffline,
                   auditLog, cacheVars, pc, attempt, cur, inflight, flushStart, remote,
                   result, startedOffline, failedOnce, delivered>>

\* the readings of Date.now() a behaviour goes through: a whole number of TTLs
\* after the start, and the millisecond after each
ClockReadings == {StartTime + k * TickMs + d : k \in 0..MaxTicks, d \in 0..1}

\* time passes
Tick ==
  /\ \E t \in ClockReadings :
       /\ t > now
       /\ now' = t
  /\ UNCHANGED <<isOffline, offlineQueue, auditLog, cacheVars, storageVars, pc,
                 attempt, cur, inflight, flushStart, remote, result, startedOffline,
                 failedOnce, creates, loads, appended, delivered, nextId,
                 realtimeInterval, backoff>>

\* Governor.create: the constructor, then initialize(), in a process whose
\* memoryStore is `ms`
create(ms) ==
  LET queue == getItem(ms, files, withPrefix(OFFLINE_QUEUE_KEY), now)
      audit == getItem(queue.memoryStore, queue.files, withPrefix(AUDIT_LOG_KEY), now)
      index == getItem(audit.memoryStore, audit.files, withPrefix(RULEPACK_INDEX_KEY),
                       now) IN
  /\ pc = "idle"
  /\ creates < MaxCreates
  /\ creates' = creates + 1
  /\ isOffline' = configOffline
  /\ offlineQueue' = IF queue.found THEN queue.value[1] ELSE <<>>
  /\ auditLog' = IF audit.found THEN audit.value[1] ELSE <<>>
  /\ rulepackIndex' = IF index.found THEN index.value[1] ELSE EmptyMap
  /\ memory' = EmptyMap
  /\ metrics' = [hits |-> 0, misses |-> 0, stale |-> 0]
  /\ memoryStore' = index.memoryStore
  /\ files' = index.files
  /\ result' = NoResult
  /\ remote' = FALSE
  /\ startedOffline' = configOffline
  /\ flushStart' = <<>>
  /\ UNCHANGED <<now, pc, attempt, cur, inflight, delivered, failedOnce, nextId, loads,
                 appended, realtimeInterval, backoff>>

\* the application creates another Governor over the same prefix in the same process
CreateInstance == create(memoryStore)

\* the process ends and a new one creates its Governor: memoryStore starts empty
RestartProcess == create(EmptyMap)

Next ==
  \/ EvaluateCall
  \/ UpdatePoliciesCall
  \/ Attempt
  \/ FlushCall
  \/ FlushNext
  \/ SetOfflineMode

Spec == Init /\ [][Next]_vars

NextRestart ==
  \/ EvaluateCall
  \/ UpdatePoliciesCall
  \/ Attempt
  \/ FlushCall
  \/ FlushNext
  \/ SetOfflineMode
  \/ CreateInstance
  \/ RestartProcess

SpecRestart == Init /\ [][NextRestart]_vars

\* requestWithRetry's catch when another attempt follows, under the retry options
\* in force: attempt += 1, then exponentialBackoff(attempt - 1, this.config.retry)
ExponentialBackoffCall ==
  /\ attempt + 1 < backoff.options.retries + 1
  /\ attempt' = attempt + 1
  /\ backoff' = Backoff(attempt' - 1, backoff.options)
  /\ UNCHANGED <<now, isOffline, offlineQueue, auditLog, cacheVars, storageVars, pc, cur,
                 inflight, flushStart, remote, result, startedOffline, failedOnce,
                 creates, loads, appended, delivered, nextId, realtimeInterval>>

\* the delays of one retry loop, for each of the retry options
NextBackoff == ExponentialBackoffCall

SpecBackoff == InitBackoff /\ [][NextBackoff]_vars

\* an instance with its realtime updates: the timer, the queue, shutdown
NextTimer ==
  \/ StartRealtimeUpdates
  \/ StopRealtimeUpdates
  \/ RealtimeTick
  \/ Close
  \/ EvaluateCall
  \/ Attempt
  \/ FlushCall
  \/ FlushNext
  \/ SetOfflineMode

SpecTimer == Init /\ [][NextTimer]_vars

\* the rulepack cache called directly, over time
NextCacheManager ==
  \/ CacheGetCall
  \/ CacheHasCall
  \/ CacheSetCall
  \/ CacheDeleteCall
  \/ CacheClearCall
  \/ Tick

SpecCacheManager == Init /\ [][NextCacheManager]_vars

\* the rulepack cache beside another cache and the queue's file in one directory
NextCacheClear ==
  \/ CacheSetCall
  \/ CacheDeleteCall
  \/ CacheClearCall
  \/ OtherCacheSetCall
  \/ OfflineEvaluateCall

SpecCacheClear == Init /\ [][NextCacheClear]_vars

\* one instance called by two callers: evaluate may run while a flush is suspended
NextConcurrent ==
  \/ EvaluateCall
  \/ ConcurrentEvaluateCall
  \/ Attempt
  \/ FlushCall
  \/ FlushNext

SpecConcurrent == Init /\ [][NextConcurrent]_vars

\* policy updates of one instance: submitted, queued while offline, replayed
NextUpdates ==
  \/ UpdateListCall
  \/ Attempt
  \/ FlushCall
  \/ FlushNext
  \/ SetOfflineMode

SpecUpdates == Init /\ [][NextUpdates]_vars

\* the rulepack cache of one instance over time: loads, mode changes, the clock
NextCache ==
  \/ LoadRulepackCall
  \/ Attempt
  \/ SetOfflineMode
  \/ Tick

SpecCache == Init /\ [][NextCache]_vars

\* the audit log under a long run of appends
NextAudit == AppendAuditRecordCall

SpecAudit == Init /\ [][NextAudit]_vars

TypeOK ==
  /\ isOffline \in BOOLEAN
  /\ pc \in {"idle", "rulepack", "post", "put", "updates", "drain"}
  /\ realtimeInterval \in BOOLEAN
  /\ attempt \in 0..retries
  /\ Len(inflight) <= 1
  /\ nextId \in 0..MaxEvents

(***************************************************************************)
(* Properties                                                              *)
(***************************************************************************)
InFlush == pc = "drain" \/ inflight # <<>>
QueueIds == {offlineQueue[i].eid : i \in 1..Len(offlineQueue)}
DeliveredIds == {delivered[i] : i \in 1..Len(delivered)}
FlushFailed ==
  pc = "idle" /\ result.name = "flushOfflineQueue" /\ result.status = "error"
FlushDrained ==
  /\ pc = "idle" /\ result.name = "flushOfflineQueue" /\ result.status = "ok"
  /\ ~startedOffline

\* C1: events are delivered to the remote service in the order they were enqueued:
\* when an event is delivered, every event enqueued before it has been delivered
\* already, whatever replays failed in between.
C1_FifoDelivery ==
  \A i \in 1..Len(delivered) :
    \A e \in 1..(delivered[i] - 1) : \E j \in 1..(i - 1) : delivered[j] = e

\* E1, E2, E3 were enqueued, the replay of E1 failed once, and all three were delivered
C1_Witness == delivered = <<1, 2, 3>> /\ 1 \in failedOnce

\* C2: replaying an evaluation event stored with options.offline = true calls
\* evaluate with options.offline = false; that call takes the remote route (a
\* request of it is in flight) and, until the replay is over, no event is
\* appended to the queue.
C2_ReplayStripsOffline ==
  [][/\ (/\ pc = "drain"
         /\ offlineQueue # <<>>
         /\ Head(offlineQueue).type = "evaluation"
         /\ Head(offlineQueue).payload.options = OptOfflineTrue
         /\ FlushNext)
        => /\ cur'.kind = "evaluate"
           /\ cur'.options = OptOfflineFalse
           /\ pc' \in {"rulepack", "post"}
           /\ inflight' = <<Head(offlineQueue)>>
           /\ offlineQueue' = Tail(offlineQueue)
     /\ InFlush => nextId' = nextId
     /\ (inflight # <<>> /\ inflight' # <<>>)
          => (cur' = cur /\ offlineQueue' = offlineQueue)]_vars

\* the replay of an event stored with options.offline = true has its POST in flight
C2_Witness ==
  /\ pc = "post"
  /\ inflight # <<>>
  /\ inflight[1].payload.options = OptOfflineTrue
  /\ cur.options = OptOfflineFalse

\* a failure of the remote call that is a connectivity failure: a response that is
\* not ok (NetworkError) or no response at all (fetch rejected)
ConnectivityFailure(error) == error \in {"network_error", "fetch_rejected"}

EvaluateFailedOffConnectivity ==
  /\ pc = "idle"
  /\ result.name = "evaluate"
  /\ result.status = "error"
  /\ ConnectivityFailure(result.error)
  /\ ~startedOffline

\* the evaluate calls that can follow: a policyId, no options.offline
QueuedNotSent(payload) ==
  /\ ~ENABLED (EvaluateCallWith(payload) /\ pc' # "idle")
  /\ ~ENABLED (EvaluateCallWith(payload) /\ Len(offlineQueue') # Len(offlineQueue) + 1)

\* C3: when an evaluate call started while connected has failed because of a
\* connectivity failure of its remote call, Connectivity Mode is offline, and the
\* very next evaluate call without options.offline issues no remote call and
\* appends one event to the queue.
C3_ConnectivityFailureGoesOffline ==
  EvaluateFailedOffConnectivity =>
    /\ isOffline
    /\ \A payload \in Payloads :
         (payload.policyId # "" /\ payload.options # OptOfflineTrue)
            => QueuedNotSent(payload)

\* C4: an evaluate call with a policyId made while Connectivity Mode is offline, or
\* with options.offline = true, issues no remote call, appends exactly one
\* evaluation event holding the caller's payload to the tail of the queue, and
\* returns decision review with metadata.offline = true.
C4_OfflineRouteQueues ==
  [][\A payload \in Payloads :
       (/\ payload.policyId # ""
        /\ isOffline \/ payload.options = OptOfflineTrue
        /\ EvaluateCallWith(payload))
       => /\ pc' = "idle"
          /\ ~remote'
          /\ Len(offlineQueue') = Len(offlineQueue) + 1
          /\ SubSeq(offlineQueue', 1, Len(offlineQueue)) = offlineQueue
          /\ offlineQueue'[Len(offlineQueue')].type = "evaluation"
          /\ offlineQueue'[Len(offlineQueue')].payload = payload
          /\ result' = Returned("evaluate", "review", TRUE)]_vars

\* a connected instance has queued a call made with options.offline = true behind
\* an earlier event
C4_Witness ==
  /\ pc = "idle"
  /\ result = Returned("evaluate", "review", TRUE)
  /\ ~startedOffline
  /\ Len(offlineQueue) = 2
  /\ offlineQueue[2].payload.options = OptOfflineTrue

\* C5: evaluate without a policyId throws policy_error at once: no remote call, no
\* event enqueued, and the queue, the audit log, the cache metrics, the mode and
\* the persisted data are as before.
C5_MissingPolicyIdFailsFast ==
  [][\A payload \in Payloads :
       (payload.policyId = "" /\ EvaluateCallWith(payload))
       => /\ pc' = "idle"
          /\ ~remote'
          /\ result' = Thrown("evaluate", "policy_error")
          /\ UNCHANGED <<offlineQueue, auditLog, metrics, isOffline, nextId,
                         memoryStore, files>>]_vars

\* an offline instance with a queued event has rejected an evaluate without policyId
C5_Witness ==
  /\ pc = "idle"
  /\ result = Thrown("evaluate", "policy_error")
  /\ isOffline
  /\ offlineQueue # <<>>

\* C6: every event ever enqueued is, whenever no call is in flight, still in the
\* in-memory queue or delivered to the remote service.
C6_NoEventDropped ==
  pc = "idle" => \A e \in 1..nextId : e \in QueueIds \/ e \in DeliveredIds

\* a flush delivered an event, failed on the next one, and both are accounted for
C6_Witness ==
  /\ FlushFailed
  /\ nextId = 3
  /\ DeliveredIds # {}
  /\ Len(offlineQueue) = 2

\* C7: a flushOfflineQueue whose replay of the head event fails stops there and
\* throws the error; the queue is then the failed event followed by the events
\* not yet attempted, in their original order, the events before it are
\* delivered, and no later event was attempted or delivered.
C7_FailedFlushKeepsOrder ==
  FlushFailed =>
    /\ result.error \in {"network_error", "timeout_error", "fetch_rejected",
                         "decode_error"}
    /\ inflight = <<>>
    /\ \E k \in 1..Len(flushStart) :
         /\ offlineQueue = SubSeq(flushStart, k, Len(flushStart))
         /\ flushStart[k].eid \in failedOnce
         /\ flushStart[k].eid \notin DeliveredIds
         /\ \A i \in 1..(k - 1) : flushStart[i].eid \in DeliveredIds
         /\ \A i \in (k + 1)..Len(flushStart) :
              flushStart[i].eid \notin failedOnce \cup DeliveredIds

\* a flush of three events delivered the first and failed on the second
C7_Witness ==
  /\ FlushFailed
  /\ Len(flushStart) = 3
  /\ Len(offlineQueue) = 2
  /\ offlineQueue[1].eid \in failedOnce

\* C8: flushOfflineQueue called while offline returns without a remote call and
\* leaves the in-memory queue, the persisted queue and the mode as they were.
C8_FlushWhileOfflineIsNoOp ==
  [][(pc = "idle" /\ isOffline /\ FlushCall)
       => /\ pc' = "idle"
          /\ ~remote'
          /\ result' = Returned("flushOfflineQueue", "none", FALSE)
          /\ UNCHANGED <<offlineQueue, memoryStore, files, isOffline, delivered,
                         failedOnce>>]_vars

\* an offline instance holding queued events has returned from flushOfflineQueue
C8_Witness ==
  /\ pc = "idle"
  /\ result = Returned("flushOfflineQueue", "none", FALSE)
  /\ startedOffline
  /\ isOffline
  /\ offlineQueue # <<>>

\* C9: a flushOfflineQueue started while connected in which every replay succeeds
\* consumes one event per turn and returns with the in-memory queue empty, every
\* event of the queue delivered, and the empty list written as the persisted queue.
C9_FullDrainPersistsEmpty ==
  /\ InFlush =>
       \E k \in 0..Len(flushStart) :
         /\ offlineQueue = SubSeq(flushStart, k + 1, Len(flushStart))
         /\ inflight # <<>> => (k >= 1 /\ inflight[1] = flushStart[k])
  /\ FlushDrained =>
       /\ offlineQueue = <<>>
       /\ PersistedQueue = << <<>> >>
       /\ \A i \in 1..Len(flushStart) : flushStart[i].eid \in DeliveredIds

\* a connected flush of two events has delivered both and returned
C9_Witness == FlushDrained /\ Len(flushStart) = 2 /\ Len(delivered) >= 2

\* C10: a fresh instance over the same storage prefix starts with the in-memory
\* queue equal to the queue last persisted, in the same order.
C10_QueueSurvivesNewInstance ==
  [][(CreateInstance \/ RestartProcess)
       => offlineQueue' = (IF PersistedQueue = <<>> THEN <<>> ELSE PersistedQueue[1])]_vars

\* the codes of the typed errors (GovernorError subclasses)
TypedErrorCodes == {"network_error", "timeout_error", "policy_error", "storage_error"}

\* C11: every failure that reaches the caller of an operation is a typed error
\* whose code is network_error, timeout_error, policy_error or storage_error; no
\* raw transport or decode exception reaches the caller.
C11_OnlyTypedErrors ==
  (pc = "idle" /\ result.status = "error") => result.error \in TypedErrorCodes

\* a remote request of the running invocation is being attempted or retried
InRequest == pc \in {"rulepack", "post", "put", "updates"}

\* C12: one pass of requestWithRetry makes at least one and at most retries + 1
\* attempts: a successful attempt ends the pass, a failed attempt (connectivity
\* failure or timeout alike) is followed by another one while fewer than
\* retries + 1 attempts were made, and the failure of attempt retries + 1 is thrown.
C12_RetryBudget ==
  /\ [](InRequest => attempt \in 0..retries)
  /\ [][(InRequest /\ Attempt) =>
          /\ requestWithRetry("ok") => (attempt' = 0 /\ pc' # pc)
          /\ \A outcome \in {"network_error", "timeout_error"} :
               requestWithRetry(outcome) =>
                 IF attempt < retries
                 THEN pc' = pc /\ cur' = cur /\ attempt' = attempt + 1
                 ELSE /\ pc' = "idle"
                      /\ attempt' = 0
                      /\ result'.status = "error"
                      /\ result'.error = outcome]_vars

\* a pass whose every attempt timed out has thrown the timeout after the last one
C12_Witness ==
  /\ pc = "idle"
  /\ result = Thrown("updatePolicies", "timeout_error")
  /\ remote
  /\ ~isOffline

\* C13: an attempt that fails with an error other than network_error or
\* timeout_error is not retried: the error is thrown after its first occurrence.
C13_OtherErrorsNotRetried ==
  [][\A outcome \in Outcomes \ {"ok", "network_error", "timeout_error"} :
       (InRequest /\ Attempt /\ requestWithRetry(outcome))
          => (pc' = "idle" /\ result'.status = "error" /\ result'.error = outcome)]_vars

\* the in-process tier holds an entry for policyId whose expiresAt has passed
ExpiredInProcess(policyId) ==
  /\ Has(rulepackIndex, policyId)
  /\ Has(memory, rulepackIndex[policyId])
  /\ CacheIsExpired(memory[rulepackIndex[policyId]], now)

\* C14: a get of an entry whose expiresAt has passed (expiresAt <= now) returns
\* absent, and adds one to stale when the expired entry is in the in-process tier:
\* a loadRulepack without forceRefresh that finds such an entry counts it as stale
\* and does not return a cached bundle.
C14_ExpiredEntryIsAbsent ==
  [][\A policyId \in LoadPolicyIds \ {""} :
       (ExpiredInProcess(policyId) /\ LoadRulepackWith(policyId, FALSE))
          => /\ metrics'.stale = metrics.stale + 1
             /\ ~(result'.status = "ok" /\ result'.value # <<>>)]_vars

\* the in-process tier has no live entry for policyId and the durable tier has one
DurableOnly(policyId) ==
  /\ Has(rulepackIndex, policyId)
  /\ LET key == rulepackIndex[policyId] IN
     /\ ~(Has(memory, key) /\ ~CacheIsExpired(memory[key], now))
     /\ getItem(memoryStore, files, getPrefixedKey(namespace, key), now).found

\* C15: a get that finds no live in-process entry but finds the value in the
\* durable tier stores it in the in-process tier with expiresAt = now + the
\* configured TTL, and a get of the same key right after it is a hit of the
\* in-process tier, whatever the durable tier holds.
C15_DurableReadIsPromoted ==
  [][\A policyId \in LoadPolicyIds \ {""} :
       (DurableOnly(policyId) /\ LoadRulepackWith(policyId, FALSE))
          => LET key == rulepackIndex[policyId]
                 again == CacheGet(memory', metrics', EmptyMap, EmptyMap, key, now') IN
             /\ Has(memory', key)
             /\ memory'[key].expiresAt = Plus(Num(now), Num(cacheTTL))
             /\ result' = ReturnedValue("loadRulepack", <<memory'[key].value>>)
             /\ again.found
             /\ again.value = result'.value
             /\ again.memory = memory'
             /\ again.metrics = [metrics' EXCEPT !.hits = @ + 1]]_vars

\* a bundle was returned from the durable tier and its in-process entry expires
\* later than the durable entry
C15_Witness ==
  /\ pc = "idle"
  /\ result.name = "loadRulepack" /\ result.status = "ok" /\ ~remote
  /\ \E policyId \in DOMAIN rulepackIndex :
       LET key == rulepackIndex[policyId]
           durable == getPrefixedKey(storageKeyPrefix, getPrefixedKey(namespace, key)) IN
       /\ Has(memory, key) /\ Has(memoryStore, durable)
       /\ result.value = <<memory[key].value>>
       /\ memory[key].expiresAt = Plus(Num(now), Num(cacheTTL))
       /\ memory[key].expiresAt # memoryStore[durable].expiresAt

\* C16: when policy P, cached with checksum C1, is cached again with checksum
\* C2 # C1, the two bundles are under two distinct keys, the Rulepack Index maps P
\* to the key of C2, and the cache lookup loadRulepack(P) makes returns the bundle
\* of C2.
C16_NewChecksumNewEntry ==
  [][\A P \in LoadPolicyIds \ {""} : \A C1, C2 \in ServedChecksums(P) :
       (/\ C1 # C2
        /\ pc = "rulepack" /\ cur.policyId = P
        /\ Has(rulepackIndex, P)
        /\ rulepackIndex[P] = createRulepackCacheKey(P, C1)
        /\ Has(memory, rulepackIndex[P])
        /\ memory[rulepackIndex[P]].value.id = P
        /\ isOffline' = FALSE
        /\ RulepackFetched(C2, TRUE))
          => LET key1 == createRulepackCacheKey(P, C1)
                 key2 == createRulepackCacheKey(P, C2)
                 lookup == CacheGet(memory', metrics', memoryStore', files',
                                    rulepackIndex'[P], now') IN
             /\ key1 # key2
             /\ rulepackIndex'[P] = key2
             /\ Has(memory', key1) /\ memory'[key1].value.checksum = C1
             /\ Has(memory', key2) /\ memory'[key2].value.checksum = C2
             /\ lookup.found
             /\ lookup.value = <<[id |-> P, checksum |-> C2]>>]_vars

\* policy p was cached with checksum c and then with x:c, and a loadRulepack
\* without forceRefresh has returned the bundle of x:c from the cache
C16_Witness ==
  /\ pc = "idle" /\ ~remote
  /\ result = ReturnedValue("loadRulepack", <<[id |-> "p", checksum |-> "x:c"]>>)
  /\ Has(rulepackIndex, "p")
  /\ rulepackIndex["p"] = createRulepackCacheKey("p", "x:c")
  /\ Has(memory, createRulepackCacheKey("p", "c"))
  /\ memory[createRulepackCacheKey("p", "c")].value.checksum = "c"

\* C17: distinct (policyId, checksum) pairs have distinct cache keys, so the
\* bundles of two policies never share a cache slot.
C17_DistinctPairsDistinctKeys ==
  \A p, q \in DOMAIN rulepackIndex : p # q => rulepackIndex[p] # rulepackIndex[q]

\* the bundle the two cache tiers hold for policyId, if a live one exists
LiveBundle(policyId) ==
  IF ~Has(rulepackIndex, policyId)
  THEN <<>>
  ELSE LET key == rulepackIndex[policyId]
           durable == getItem(memoryStore, files, getPrefixedKey(namespace, key), now) IN
       IF Has(memory, key) /\ ~CacheIsExpired(memory[key], now)
       THEN <<memory[key].value>>
       ELSE durable.value

\* C19: loadRulepack called while offline returns at once without a remote call:
\* without forceRefresh the live cached bundle if there is one and absent
\* otherwise, with forceRefresh absent.
C19_OfflineLoadNeverCallsRemote ==
  [][\A policyId \in LoadPolicyIds \ {""}, forceRefresh \in BOOLEAN :
       (isOffline /\ LoadRulepackWith(policyId, forceRefresh))
          => /\ pc' = "idle"
             /\ ~remote'
             /\ loads' = loads
             /\ isOffline'
             /\ result' = ReturnedValue("loadRulepack",
                            IF forceRefresh THEN <<>> ELSE LiveBundle(policyId))]_vars

\* an offline instance has answered loadRulepack with absent for a policy that
\* is not cached
C19_Witness ==
  /\ pc = "idle" /\ isOffline /\ startedOffline /\ ~remote
  /\ result = ReturnedValue("loadRulepack", <<>>)
  /\ rulepackIndex = EmptyMap

\* C20: loadRulepack without forceRefresh, when the Rulepack Index holds a key
\* for the policy and the cache holds a live bundle under it, returns that bundle
\* without a remote call and leaves the Rulepack Index as it was.
C20_CachedLoadIsLocal ==
  [][\A policyId \in LoadPolicyIds \ {""} :
       (LiveBundle(policyId) # <<>> /\ LoadRulepackWith(policyId, FALSE))
          => /\ pc' = "idle"
             /\ ~remote'
             /\ loads' = loads
             /\ result' = ReturnedValue("loadRulepack", LiveBundle(policyId))
             /\ rulepackIndex' = rulepackIndex]_vars

\* a connected instance has answered loadRulepack from its cache
C20_Witness ==
  /\ pc = "idle" /\ ~isOffline /\ ~startedOffline /\ ~remote
  /\ result.name = "loadRulepack" /\ result.status = "ok"
  /\ result.value # <<>>
  /\ metrics.hits >= 1

\* C18: the in-memory audit log never holds more than 500 records, and after n
\* appends it is the most recent min(n, 500) appended records in append order
\* (records are numbered 1, 2, ... in the order they are appended).
C18_AuditLogKeepsNewest ==
  /\ Len(auditLog) <= AuditLimit
  /\ Len(auditLog) = (IF appended < AuditLimit THEN appended ELSE AuditLimit)
  /\ \A i \in 1..Len(auditLog) : auditLog[i].id = appended - Len(auditLog) + i

\* 502 records were appended: the log holds records 3 to 502
C18_Witness ==
  /\ appended = AuditLimit + 2
  /\ Len(auditLog) = AuditLimit
  /\ auditLog[1].id = 3
  /\ auditLog[AuditLimit].id = AuditLimit + 2

\* C22: updatePolicies called while Connectivity Mode is offline issues no remote
\* call and appends exactly one policy-update event holding the caller's list to
\* the tail of the queue; when flushOfflineQueue replays that event, the list it
\* submits (the body of its PUT) is the stored list, unchanged.
C22_OfflineUpdateQueuedVerbatim ==
  [][/\ \A policies \in UpdateLists :
          (isOffline /\ UpdatePoliciesCallWith(policies))
            => /\ pc' = "idle"
               /\ ~remote'
               /\ result' = Returned("updatePolicies", "none", FALSE)
               /\ Len(offlineQueue') = Len(offlineQueue) + 1
               /\ SubSeq(offlineQueue', 1, Len(offlineQueue)) = offlineQueue
               /\ offlineQueue'[Len(offlineQueue')].type = "policy-update"
               /\ offlineQueue'[Len(offlineQueue')].payload = [policies |-> policies]
               /\ PersistedQueue' = <<offlineQueue'>>
     /\ (/\ pc = "drain"
         /\ offlineQueue # <<>>
         /\ Head(offlineQueue).type = "policy-update"
         /\ FlushNext)
          => /\ pc' = "put"
             /\ cur'.kind = "updatePolicies"
             /\ cur'.policies = Head(offlineQueue).payload.policies
             /\ inflight' = <<Head(offlineQueue)>>
     /\ (inflight # <<>> /\ inflight' # <<>>) => cur' = cur]_vars

\* the lists L2 and L1 were queued in that order while offline, L2 was
\* delivered, and the PUT that replays L1 is in flight
C22_Witness ==
  /\ pc = "put"
  /\ inflight # <<>>
  /\ inflight[1].eid = 2
  /\ inflight[1].payload.policies = "L1"
  /\ cur.policies = "L1"
  /\ delivered = <<1>>

\* C24: after each attempt of requestWithRetry, Connectivity Mode reflects how the
\* attempt ended: offline right after an attempt that failed with a connectivity
\* failure, whether or not a retry follows, and connected right after an attempt
\* that succeeded.
C24_ModeFollowsEachAttempt ==
  [][\A outcome \in Outcomes :
       (pc \in {"rulepack", "post", "put"} /\ requestWithRetry(outcome) /\ Attempt)
          => /\ (outcome = "ok") => ~isOffline'
             /\ ConnectivityFailure(outcome) => isOffline']_vars

\* C26: replaying an evaluation event does not modify the stored event: the
\* popped event is the queue's head as it was stored, the override offline = false
\* is on the payload handed to evaluate only, and the event a failed replay puts
\* back at the head still holds the payload it was enqueued with, options.offline
\* = true included.
C26_ReplayKeepsStoredEvent ==
  [][/\ (/\ pc = "drain"
         /\ offlineQueue # <<>>
         /\ Head(offlineQueue).type = "evaluation"
         /\ FlushNext)
          => /\ inflight' = <<Head(offlineQueue)>>
             /\ cur'.policyId = Head(offlineQueue).payload.policyId
             /\ cur'.options = ReplayOptions(Head(offlineQueue).payload.options)
     /\ (inflight # <<>> /\ inflight' # <<>>) => inflight' = inflight
     /\ (inflight # <<>> /\ pc' = "idle")
          => /\ offlineQueue' = inflight \o offlineQueue
             /\ (inflight[1].type = "evaluation")
                  => offlineQueue'[1].payload \in Payloads
     /\ \A i \in 1..Len(offlineQueue') :
          offlineQueue'[i].type = "evaluation"
            => offlineQueue'[i].payload.options # OptOfflineFalse]_vars

\* the replay of an event enqueued with options.offline = true has failed, and
\* the event is back at the head with options.offline = true
C26_Witness ==
  /\ FlushFailed
  /\ offlineQueue # <<>>
  /\ offlineQueue[1].type = "evaluation"
  /\ offlineQueue[1].payload.options = OptOfflineTrue
  /\ offlineQueue[1].eid \in failedOnce

\* C27: a value stored without a ttlMs (expiresAt = +Infinity) is never treated as
\* expired: not while the process that stored it lives, and not after it was
\* written to the cache directory and is read back by a new process.
C27_NoTtlNeverExpires ==
  /\ [](\A key \in DOMAIN memoryStore :
          (memoryStore[key].expiresAt = POSITIVE_INFINITY)
            => ~StorageIsExpired(memoryStore[key], now))
  /\ [][RestartProcess =>
          \A key \in DOMAIN memoryStore :
            (memoryStore[key].expiresAt = POSITIVE_INFINITY /\ Has(files, key))
              => /\ Has(files', key)
                 /\ Has(memoryStore', key)
                 /\ memoryStore'[key].value = memoryStore[key].value]_vars

\* C28: the delay waited before the n-th retry (n = 0 for the first retry) is
\* min(maxTimeoutMs, minTimeoutMs * factor^n), a function of n and the retry
\* options alone; it never exceeds maxTimeoutMs, and for factor >= 1 it does not
\* decrease from one retry to the next.
C28_BackoffDelay ==
  /\ [](backoff.attempt >= 0 =>
          LET o == backoff.options
              grown == o.minTimeoutMs * pow(o.factor, backoff.attempt) IN
          /\ backoff.delayMs = (IF grown <= o.maxTimeoutMs THEN grown ELSE o.maxTimeoutMs)
          /\ backoff.delayMs <= o.maxTimeoutMs)
  /\ [][(backoff' # backoff /\ backoff'.attempt >= 0)
          => /\ backoff'.attempt = attempt
             /\ backoff'.options = backoff.options
             /\ (backoff.attempt >= 0 /\ backoff.options.factor >= 1)
                  => backoff'.delayMs >= backoff.delayMs]_vars

\* under DEFAULT_RETRY's factor and timeouts the sixth retry would wait 8000 ms
\* uncapped, and waits 4000 ms
C28_Witness ==
  /\ backoff.options.factor = factor
  /\ backoff.options.minTimeoutMs = minTimeoutMs
  /\ backoff.options.maxTimeoutMs = maxTimeoutMs
  /\ backoff.attempt = 5
  /\ attempt = 6
  /\ backoff.delayMs = maxTimeoutMs

\* C21: when close() has returned, no realtime-update timer is set and the
\* persisted offline queue equals the in-memory queue.
C21_CloseStopsTimerAndPersists ==
  (pc = "idle" /\ result = Returned("close", "none", FALSE))
    => /\ ~realtimeInterval
       /\ PersistedQueue = <<offlineQueue>>

\* close() has returned after a flush that delivered E1 and failed on E2: the
\* file, which held E1 still, holds the queue that starts with E2
C21_Witness ==
  /\ pc = "idle"
  /\ result = Returned("close", "none", FALSE)
  /\ delivered = <<1>>
  /\ 2 \in failedOnce
  /\ offlineQueue # <<>>
  /\ offlineQueue[1].eid = 2
  /\ PersistedQueue = <<offlineQueue>>

\* a scheduled refresh has failed because of a connectivity failure of its request
RefreshFailedOffConnectivity ==
  /\ pc = "idle"
  /\ result.name = "fetchPolicyUpdates"
  /\ result.status = "error"
  /\ ConnectivityFailure(result.error)

\* C25: a scheduled refresh that fails with a connectivity failure leaves
\* Connectivity Mode offline and the timer set, and while the mode is offline no
\* tick of the timer issues a remote call.
C25_FailedRefreshGoesOffline ==
  /\ RefreshFailedOffConnectivity => (isOffline /\ realtimeInterval)
  /\ (isOffline /\ realtimeInterval /\ pc = "idle")
       => ~ENABLED (RealtimeTick /\ pc' # "idle")

\* C23: every get of the cache, has included, adds one to exactly one of hits and
\* misses: to hits when a value is returned, from the in-process tier or from the
\* durable one, to misses when the key is in neither; stale grows by one exactly
\* when the lookup meets an expired in-process entry; set, delete and clear
\* change no counter.
C23_MetricsCountLookups ==
  [][/\ \A key \in CacheKeys :
          (CacheGetCallWith(key) \/ CacheHasCallWith(key)) =>
            LET live == Has(memory, key) /\ ~CacheIsExpired(memory[key], now)
                expired == Has(memory, key) /\ CacheIsExpired(memory[key], now)
                file == getPrefixedKey(storageKeyPrefix, getPrefixedKey(namespace, key))
                durable ==
                  \/ Has(memoryStore, file) /\ ~StorageIsExpired(memoryStore[file], now)
                  \/ Has(files, file) /\ ~StorageIsExpired(files[file], now)
                returned == live \/ durable IN
            /\ metrics'.hits = metrics.hits + (IF returned THEN 1 ELSE 0)
            /\ metrics'.misses = metrics.misses + (IF returned THEN 0 ELSE 1)
            /\ metrics'.stale = metrics.stale + (IF expired THEN 1 ELSE 0)
            /\ (result'.name = "get") => (result'.value # <<>>) = returned
            /\ (result'.name = "has") => result'.value = <<Boolean(returned)>>
     /\ (CacheSetCall \/ CacheDeleteCall \/ CacheClearCall) => metrics' = metrics]_vars

\* has() has met an expired in-process entry whose durable copy was still live
\* (one stale, one hit), after a lookup of a key that is in neither tier
C23_Witness ==
  /\ result = ReturnedValue("has", <<Boolean(TRUE)>>)
  /\ metrics = [hits |-> 1, misses |-> 1, stale |-> 1]

\* the files that hold the entries of the cache with namespace ns
CacheFiles(fs, ns) ==
  {n \in DOMAIN fs : startsWith(n, getPrefixedKey(storageKeyPrefix, ns) \o ":")}

\* C29: clear() of the rulepack cache removes every durable key of its namespace
\* and nothing else: the entries of a cache with another namespace, one whose name
\* starts with "rulepack" included, and the files of the queue, the audit log and
\* the Rulepack Index are as they were.
C29_ClearRemovesOwnNamespaceOnly ==
  [][CacheClearCall =>
       /\ CacheFiles(files', namespace) = {}
       /\ \A n \in DOMAIN files \ CacheFiles(files, namespace) :
            Has(files', n) /\ files'[n] = files[n]]_vars

\* the ids of the events in the queue's file
PersistedIds ==
  IF PersistedQueue = <<>> THEN {}
  ELSE {PersistedQueue[1][i].eid : i \in 1..Len(PersistedQueue[1])}

\* C30: two calls on one instance can interleave so that an event is lost from
\* the file: when an evaluate routed offline enqueues while flushOfflineQueue holds
\* a popped event, the snapshot it persists lacks that event, and when the replay
\* then fails the event goes back to the in-memory queue and the file is not
\* written again.
C30_InterleavingLosesPoppedEvent ==
  [][/\ ConcurrentEvaluateCall
          => /\ inflight' = inflight
             /\ PersistedQueue' = <<offlineQueue'>>
             /\ inflight[1].eid \notin PersistedIds'
             /\ (nextId + 1) \in PersistedIds'
             /\ inflight[1].eid \notin DeliveredIds
     /\ (inflight # <<>> /\ pc' = "idle")
          => /\ offlineQueue' = inflight \o offlineQueue
             /\ files' = files
             /\ inflight[1].eid \notin DeliveredIds']_vars

\* the lost update: the flush has failed, E1 is in the in-memory queue and was
\* never delivered, and the file holds the queue without E1
C30_Witness ==
  /\ FlushFailed
  /\ 1 \in QueueIds
  /\ 1 \notin DeliveredIds
  /\ PersistedIds # {}
  /\ 1 \notin PersistedIds

\* an evaluate call of the application that took the remote route is in progress
OnlineEvaluate == cur.kind = "evaluate" /\ inflight = <<>> /\ InRequest

\* the value last written for the audit log, as the directory holds it
PersistedAuditLog ==
  LET file == getPrefixedKey(storageKeyPrefix, withPrefix(AUDIT_LOG_KEY)) IN
  IF Has(files, file) THEN <<files[file].value>> ELSE <<>>

\* C33: an evaluate call routed online that throws, because the rulepack fetch or
\* the evaluate request used up its retries, leaves the offline queue and the
\* audit log as they were, in memory and in the directory: no step of the call,
\* from its start to the throw, changes them; the failed request is not queued.
C33_FailedOnlineEvaluateQueuesNothing ==
  [][(\/ \E payload \in Payloads : EvaluateCallWith(payload) /\ pc' # "idle"
      \/ (/\ OnlineEvaluate
          /\ Attempt
          /\ ~(pc' = "idle" /\ result'.status = "ok")))
       => /\ offlineQueue' = offlineQueue
          /\ auditLog' = auditLog
          /\ nextId' = nextId
          /\ PersistedQueue' = PersistedQueue
          /\ PersistedAuditLog' = PersistedAuditLog]_vars

\* an evaluate routed online has thrown after its retries, with events of earlier
\* calls in the queue and a record of an earlier call in the audit log
C33_Witness ==
  /\ pc = "idle"
  /\ result = Thrown("evaluate", "network_error")
  /\ remote
  /\ ~startedOffline
  /\ Len(offlineQueue) = 2
  /\ Len(auditLog) = 1

\* C34: whenever no operation is in flight, the persisted offline queue equals the
\* in-memory offline queue, also after a flushOfflineQueue that delivered some
\* events and then failed on a later one.
C34_IdleQueueIsPersisted ==
  (pc = "idle")
    => (IF PersistedQueue = <<>> THEN offlineQueue = <<>>
        ELSE PersistedQueue = <<offlineQueue>>)

\* C35: Connectivity Mode changes only in a setOfflineMode call, in an attempt
\* that succeeds and in an attempt that fails with network_error; an attempt that
\* fails with a timeout or with any other error leaves the mode as it was.
C35_ModeChangesOnlyOnEvidence ==
  [][/\ (isOffline' # isOffline)
          => \/ SetOfflineMode
             \/ /\ InRequest
                /\ Attempt
                /\ requestWithRetry("ok") \/ requestWithRetry("network_error")
     /\ \A outcome \in Outcomes \ {"ok", "network_error"} :
          (InRequest /\ Attempt /\ requestWithRetry(outcome))
            => isOffline' = isOffline]_vars

\* an evaluate started while connected met a network_error and then a timeout at
\* its last attempt: the timeout has left the mode offline, as it found it
C35_Witness ==
  /\ pc = "idle"
  /\ result = Thrown("evaluate", "timeout_error")
  /\ ~startedOffline
  /\ isOffline

\* offline-routed evaluate and updatePolicies calls as the clock advances
NextEventIds ==
  \/ OfflineEvaluateCall
  \/ UpdatePoliciesCall
  \/ Attempt
  \/ SetOfflineMode
  \/ Tick

SpecEventIds == Init /\ [][NextEventIds]_vars

\* C37: the queuedEventId returned by an offline-routed evaluate identifies exactly
\* one queued event: two events enqueued by different calls never carry the same
\* identifier, also when the calls happen within the same clock tick.
C37_QueuedEventIdIdentifiesOneEvent ==
  \A i, j \in 1..Len(offlineQueue) :
    (queuedEventId(offlineQueue[i]) = queuedEventId(offlineQueue[j])) => i = j

\* flushOfflineQueue is suspended at an await of a replay: at its request or its
\* backoff delay, or, the replay's request answered, at the write of its audit
\* record (the loop has no await of its own before the first replay)
FlushSuspended ==
  \/ inflight # <<>>
  \/ pc = "drain" /\ offlineQueue # flushStart

\* setOfflineMode(enabled) runs while flushOfflineQueue is suspended: the call is
\* synchronous, made by the application or by the catch of the timer's callback
SetOfflineModeDuringFlush ==
  /\ FlushSuspended
  /\ \E enabled \in BOOLEAN : isOffline' = enabled
  /\ UNCHANGED <<now, realtimeInterval, backoff, creates, loads, appended, offlineQueue,
                 auditLog, cacheVars, storageVars, pc, attempt, cur, inflight,
                 flushStart, remote, result, startedOffline, failedOnce, delivered,
                 nextId>>

\* a drain during which Connectivity Mode may be set by another caller
NextDrain ==
  \/ OfflineEvaluateCall
  \/ FlushCall
  \/ FlushNext
  \/ Attempt
  \/ SetOfflineModeDuringFlush

SpecDrain == Init /\ [][NextDrain]_vars

\* C31: every flushOfflineQueue call terminates and preserves queue order, also
\* when Connectivity Mode becomes offline during the drain: each turn of the
\* drain loop leaves the queue shorter by the event it popped (so the loop ends
\* after as many turns as there were events) and the replayed evaluate or
\* updatePolicies appends no event to the tail of the queue.
C31_DrainTurnNeverRequeues ==
  [][(pc = "drain" /\ offlineQueue # <<>> /\ FlushNext)
       => /\ offlineQueue' = Tail(offlineQueue)
          /\ nextId' = nextId]_vars

\* the application calls fetchPolicyUpdates()
FetchPolicyUpdatesCall ==
  /\ pc = "idle"
  /\ fetchPolicyUpdates
  /\ remote' = FALSE
  /\ startedOffline' = isOffline
  /\ flushStart' = <<>>
  /\ UNCHANGED <<now, realtimeInterval, backoff, creates, loads, appended>>

\* the application calls evaluate with no options: the mode alone routes the call
PlainEvaluateCall == EvaluateCallWith([policyId |-> "p1", options |-> OptUndefined])

\* the application calls loadRulepack for one policy, from the cache or refreshing
LoadPolicyCall == \E forceRefresh \in BOOLEAN : LoadRulepackWith("p1", forceRefresh)

\* every operation that can reach the service, the timer included, in both modes
NextOffline ==
  \/ PlainEvaluateCall
  \/ LoadPolicyCall
  \/ UpdatePoliciesCall
  \/ FetchPolicyUpdatesCall
  \/ StartRealtimeUpdates
  \/ RealtimeTick
  \/ FlushCall
  \/ FlushNext
  \/ Attempt
  \/ SetOfflineMode

SpecOffline == Init /\ [][NextOffline]_vars

\* C32: offline mode is absorbing for network evidence: once Connectivity Mode is
\* offline and no remote call is in flight, no evaluate, loadRulepack,
\* updatePolicies, fetchPolicyUpdates, flushOfflineQueue or timer tick issues a
\* remote call (the operation ends in the step that starts it, with no attempt
\* made) or returns the mode to connected; only setOfflineMode(false) does.
C32_OfflineIsAbsorbing ==
  [][(isOffline /\ pc = "idle")
       => /\ pc' = "idle"
          /\ ~remote'
          /\ ~isOffline' => SetOfflineMode]_vars

\* the timer is running and a fetchPolicyUpdates made while offline has returned
\* its empty list with no request sent, events of earlier calls still queued
C32_Witness ==
  /\ pc = "idle"
  /\ isOffline
  /\ startedOffline
  /\ realtimeInterval
  /\ result = ReturnedValue("fetchPolicyUpdates", <<>>)
  /\ ~remote
  /\ offlineQueue # <<>>

\* bodies of GET /policies/updates that hold several updates
ServedSeveralUpdates ==
  {<<>>,
   <<[policyId |-> "p1", checksum |-> "c1"]>>,
   <<[policyId |-> "p1", checksum |-> "c1"], [policyId |-> "p2", checksum |-> "c1"]>>,
   <<[policyId |-> "p1", checksum |-> "c2"], [policyId |-> "p2", checksum |-> "c2"]>>}

\* the request of the running invocation is answered, or fails, the service having
\* several updates to report
AttemptSeveral ==
  /\ pc \in {"rulepack", "post", "put", "updates"}
  /\ \E outcome \in Outcomes : requestWithRetryServing(outcome, ServedSeveralUpdates)
  /\ remote' = TRUE
  /\ UNCHANGED <<now, realtimeInterval, creates, loads, appended, flushStart,
                 startedOffline, nextId>>

\* policy updates fetched by the application and by the timer
NextIndex ==
  \/ FetchPolicyUpdatesCall
  \/ StartRealtimeUpdates
  \/ RealtimeTick
  \/ AttemptSeveral
  \/ SetOfflineMode

SpecIndex == Init /\ [][NextIndex]_vars

\* the Rulepack Index as the directory holds it
PersistedIndex ==
  IF Has(files, RulepackIndexFile) THEN <<files[RulepackIndexFile].value>> ELSE <<>>

\* the bundle the index names for policyId has been written to both cache tiers
BundleWritten(policyId) ==
  LET key == rulepackIndex[policyId] IN
  /\ Has(memory, key)
  /\ Has(files, getPrefixedKey(storageKeyPrefix, getPrefixedKey(namespace, key)))

\* C36: after fetchPolicyUpdates returns for a response containing several
\* updates, which are cached concurrently, the persisted Rulepack Index equals the
\* in-memory index, and every policyId in the index points at the key of a bundle
\* that has already been written to the cache.
C36_IndexDurableAfterConcurrentCaching ==
  (/\ pc = "idle"
   /\ result.name = "fetchPolicyUpdates"
   /\ result.status = "ok"
   /\ Len(result.value) > 1)
    => /\ PersistedIndex = <<rulepackIndex>>
       /\ \A policyId \in DOMAIN rulepackIndex : BundleWritten(policyId)

====
